---- MODULE Spec2Model ----
(***************************************************************************)
(* Reward settlement of the Gianky card game.                              *)
(*                                                                         *)
(* The card page (handleUserPaidPayAndClaim, handleGaslessPayAndClaim,     *)
(* handleGamePayment) drives one settlement per click of the pay button;   *)
(* gaslessService.processGamePayment calls the backend routes, which call  *)
(* AdminWalletService (processGameFee, processGiankyReward,                *)
(* processMaticReward, processNFTReward and their fallbacks).  Every       *)
(* `await` on the ledger is a step boundary, so two settlements of         *)
(* different players interleave at the balance reads, at the nonce read    *)
(* and the broadcast inside the wallet's sendTransaction, and at the       *)
(* confirmation wait.                                                      *)
(*                                                                         *)
(* Units: Gianky amounts are whole tokens; MATIC amounts are hundredths of *)
(* a MATIC (0.05 MATIC = 5), so that the safe-amount ladder is integral.   *)
(* The ledger is the external collaborator: a token transfer reverts when  *)
(* the sender's balance is short at execution (or for any other reason the *)
(* contract may have), custodial transactions execute in nonce order, and  *)
(* a broadcast whose nonce is already taken is rejected.                   *)
(***************************************************************************)
EXTENDS Integers, Sequences, FiniteSets, TLC

\* ---------------------------------------------------------------- bounds
MaxRounds == 2          \* settlements (clicks of the pay button) per behaviour
MaxFaults == 1          \* confirmation waits that end without a receipt

\* ------------------------------------------------------ program constants
ENTRY_FEE == 5          \* GAME_CONFIG.ENTRY_FEE / ethers.parseEther('5')
NoHash    == 0          \* no transaction reference (hash undefined)
MockHash  == 0 - 1      \* a fabricated `mock_..._${Date.now()}` reference
UserPaidHash == 0 - 2   \* the literal 'user-paid' of /api/game/process-user-paid-fee
GasCost   == 1          \* gasLimit * gasPrice of a plain transfer, in hundredths

Players  == {"p1", "p2"}
Admin    == "admin"     \* this.adminAddress / CONTRACTS.ADMIN_WALLET
Pool     == "pool"      \* this.nftContract, the receiver of the custodial fee
Accounts == Players \cup {Admin, Pool}

Modes == {"userPaid", "gasless", "direct"}

\* findAvailableTokenId / findOwnedTokenIds: the curated registry, in order
knownTokenIds ==
    <<1000093, 2000050, 2000123, 3000028, 3000030, 3000067, 4000018, 5000024>>

TokenIds == {knownTokenIds[i] : i \in 1..Len(knownTokenIds)}

\* the cards of the page that are dealt in the model (rewards array)
Cards ==
    { [kind |-> "NFT",     amount |-> 0,  nft |-> "Starter NFT"],
      [kind |-> "Polygon", amount |-> 10, nft |-> ""],
      [kind |-> "Gianky",  amount |-> 10, nft |-> ""] }

\* what the custodial account holds at the start: Gianky, MATIC (hundredths)
\* and the registry identifiers it owns
Custody ==
    { [gianky |-> 60, matic |-> 200, owned |-> {knownTokenIds[1]}],
      [gianky |-> 3,  matic |-> 20,  owned |-> {}],
      [gianky |-> 7,  matic |-> 200, owned |-> {}],
      [gianky |-> 12, matic |-> 20,  owned |-> {knownTokenIds[2], knownTokenIds[3]}] }

NoCard == [kind |-> "none", amount |-> 0, nft |-> ""]

Max(a, b) == IF a >= b THEN a ELSE b

\* A token amount with its 18 decimals: `tokens` whole tokens plus `wei` wei
\* (minus, when negative), with |wei| far below one token.  Every transfer of
\* the game moves whole tokens (parseEther of an integer), so the wei part of
\* a balance never changes.
Amount(tokens, wei) == [tokens |-> tokens, wei |-> wei]

\* formatEther: the exact decimal text of a wei value, all 18 decimals kept
formatEther(value) == value

RECURSIVE Pow2Floor(_)
Pow2Floor(n) == IF n < 2 THEN 1 ELSE 2 * Pow2Floor(n \div 2)

\* Half the spacing of IEEE-754 doubles around a value, in wei: 2^-53 of the
\* value's power of two, 111.0223 wei in [1, 2), 444.09 wei in [4, 8).
HalfUlpWei(value) ==
    LET m == IF value.wei < 0 THEN value.tokens - 1 ELSE value.tokens IN
    IF m < 1 THEN 55 ELSE (1110223 * Pow2Floor(m)) \div 10000

\* parseFloat of a decimal text: the nearest double.  A text within half a
\* spacing of a whole number of tokens becomes that whole number; further
\* away the double keeps the value to within half a spacing.
parseFloat(text) ==
    LET d == IF text.wei < 0 THEN 0 - text.wei ELSE text.wei IN
    IF text.tokens > 0 /\ d <= HalfUlpWei(text)
    THEN Amount(text.tokens, 0) ELSE text

\* `x >= n` and `Math.max(0, n - x)` for a whole number n
AtLeast(x, n) == x.tokens > n \/ (x.tokens = n /\ x.wei >= 0)
Shortfall(n, x) == IF AtLeast(x, n) THEN Amount(0, 0)
                   ELSE Amount(n - x.tokens, 0 - x.wei)

\* ------------------------------------------------------------ pure helpers

\* getSafeMaticAmount: walk the ascending ladder, keep the last step that the
\* requested amount reaches; 0.05 when it reaches none.  Input and output in
\* hundredths of a MATIC.
safeAmounts == <<5, 10, 15, 20, 25, 30, 40, 50>>

RECURSIVE SafeWalk(_, _, _)
SafeWalk(numericAmount, i, safeAmount) ==
    IF i > Len(safeAmounts) THEN safeAmount
    ELSE IF numericAmount >= safeAmounts[i]
         THEN SafeWalk(numericAmount, i + 1, safeAmounts[i])
         ELSE safeAmount

getSafeMaticAmount(originalAmount) == SafeWalk(originalAmount, 1, 5)

\* the equivalent computed from the clamped amount instead of the requested
getMaticToGiankyEquivalent_fromClamped(maticAmount) ==
    Max((getSafeMaticAmount(maticAmount) * 2) \div 100, 5)

\* getMaticToGiankyEquivalent: Math.max(Math.floor(numericAmount * 2), 5);
\* the argument is in hundredths of a MATIC, the result in Gianky.
getMaticToGiankyEquivalent(maticAmount) == Max((maticAmount * 2) \div 100, 5)

\* the default of the table for every class
getGiankyEquivalent_default(nftType) == 20

\* getGiankyEquivalent: nftToGiankyMap[nftType] || 20
getGiankyEquivalent(nftType) ==
    CASE nftType = "Starter NFT"  -> 10
      [] nftType = "Basic NFT"    -> 15
      [] nftType = "Standard NFT" -> 25
      [] nftType = "VIP NFT"      -> 50
      [] nftType = "Premium NFT"  -> 75
      [] nftType = "Diamond NFT"  -> 100
      [] OTHER                    -> 20

\* contractService.waitForTransaction: resolves to `receipt.status ===
\* 'success'`; a timeout or any other error of the wait is caught and
\* becomes false.  The argument is the ledger's view of the transaction.
waitForTransaction(status) ==
    CASE status = "success"  -> TRUE
      [] status = "reverted" -> FALSE
      [] OTHER               -> FALSE

VARIABLES
    mode,        \* which handler the pay button is wired to (deployment)
    giankyBal,   \* token contract: balanceOf
    maticBal,    \* native balance of the custodial account, in hundredths
    nftOwner,    \* NFT contract: ownerOf for the registry identifiers
    ledgerTxs,   \* every transaction the ledger accepted; the hash is the index
    proc,        \* per player: the running settlement and the page state
    rounds,      \* settlements started so far
    rejected,    \* a broadcast was refused for a nonce already taken
    faults,      \* confirmation waits and balance reads that failed so far
    dust,        \* token contract: each balance's wei above or below whole tokens
    gameEligibility,  \* per player: the page's gameEligibility state
    userPaidFee  \* per player: what processUserPaidGameFee last returned

vars == <<mode, giankyBal, maticBal, nftOwner, ledgerTxs, proc, rounds,
          rejected, faults, dust, gameEligibility, userPaidFee>>

\* what the settlement handlers and the ledger leave alone
callVars == <<dust, gameEligibility, userPaidFee>>

ledgerVars == <<giankyBal, maticBal, nftOwner, ledgerTxs>>

\* ------------------------------------------------------------------ ledger

Hashes == 1..Len(ledgerTxs)

\* provider.getTransactionCount(admin, 'pending'): accepted custodial txs
AdminNext == Cardinality({h \in Hashes : ledgerTxs[h].from = Admin})

StatusOf(h) == IF h \in Hashes THEN ledgerTxs[h].status ELSE "none"

NoResult == [success |-> FALSE, feeTxHash |-> NoHash, rewardTxHash |-> NoHash,
             said |-> "none"]

\* useState<GameEligibility | null>(null)
NoEligibility ==
    [success |-> FALSE, can_play |-> FALSE, current_balance |-> Amount(0, 0),
     required_fee |-> 0, shortfall |-> Amount(0, 0), nftCount |-> 0]

IdleProc ==
    [pc |-> "idle", stage |-> "none", card |-> NoCard,
     paymentStatus |-> "idle", paymentError |-> "", flipped |-> FALSE,
     userTx |-> NoHash, feeTx |-> NoHash, primTx |-> NoHash, fbTx |-> NoHash,
     nonce |-> 0, tokenSel |-> 0, feeSeen |-> 0 - 1, watched |-> "none",
     served |-> "none", result |-> NoResult]

Init ==
    /\ mode \in Modes
    /\ \E s \in Custody :
          /\ giankyBal = [a \in Accounts |->
                            CASE a = Admin -> s.gianky
                              [] a = Pool  -> 0
                              [] a = "p1"  -> 10
                              [] OTHER     -> 7]
          /\ maticBal = s.matic
          /\ nftOwner = [t \in TokenIds |-> IF t \in s.owned THEN Admin ELSE "other"]
    /\ ledgerTxs = <<>>
    /\ proc = [p \in Players |-> IdleProc]
    /\ rounds = 0
    /\ rejected = FALSE
    /\ faults = 0
    /\ dust = [a \in Accounts |-> 0]
    /\ gameEligibility = [p \in Players |-> NoEligibility]
    /\ userPaidFee = [p \in Players |-> NoResult]

\* A transaction accepted by the ledger; `leg` says for which leg of a
\* settlement it was submitted.
NewTx(kind, from, to, amt, nonce, leg) ==
    [kind |-> kind, from |-> from, to |-> to, amt |-> amt, nonce |-> nonce,
     status |-> "pending", leg |-> leg]

\* The ledger executes a pending transaction.  Custodial transactions are
\* executed in nonce order.  A token transfer reverts when the sender's
\* balance is short, an ownership transfer when the sender is not the owner;
\* a value transfer the balance does not cover is not included.
Mine(h) ==
    /\ h \in Hashes
    /\ ledgerTxs[h].status = "pending"
    /\ LET tx == ledgerTxs[h] IN
       /\ tx.from = Admin =>
             \A g \in Hashes : (ledgerTxs[g].from = Admin /\ ledgerTxs[g].nonce < tx.nonce)
                                  => ledgerTxs[g].status # "pending"
       /\ tx.kind = "native" => maticBal >= tx.amt + GasCost
       /\ LET good == /\ tx.kind = "token" => giankyBal[tx.from] >= tx.amt
                      /\ tx.kind = "nft"   => nftOwner[tx.amt] = tx.from
          IN /\ ledgerTxs' = [ledgerTxs EXCEPT ![h].status =
                                 IF good THEN "success" ELSE "reverted"]
             /\ giankyBal' = IF good /\ tx.kind = "token"
                             THEN [giankyBal EXCEPT ![tx.from] = @ - tx.amt,
                                                    ![tx.to]   = @ + tx.amt]
                             ELSE giankyBal
             /\ maticBal' = IF good /\ tx.kind = "native"
                            THEN maticBal - tx.amt - GasCost ELSE maticBal
             /\ nftOwner' = IF good /\ tx.kind = "nft"
                            THEN [nftOwner EXCEPT ![tx.amt] = tx.to] ELSE nftOwner
    /\ UNCHANGED <<callVars, mode, proc, rounds, rejected, faults>>

\* --------------------------------------------------------------- card page

\* handleUserPaidPayAndClaim / handleGaslessPayAndClaim, `if (result.success)`:
\* the page reports 'paid' and flips the card, or reports 'failed'.
claimResult(pr, res, error) ==
    IF res.success
    THEN [pr EXCEPT !.pc = "done", !.stage = "none", !.paymentStatus = "paid",
                    !.flipped = TRUE, !.result = res]
    ELSE [pr EXCEPT !.pc = "modal", !.stage = "none", !.paymentStatus = "failed",
                    !.paymentError = error, !.result = res]

handleCardClick(p, c) ==
    /\ proc[p].pc = "idle"
    /\ proc' = [proc EXCEPT ![p] = [@ EXCEPT !.pc = "modal", !.card = c]]
    /\ UNCHANGED <<callVars, mode, ledgerVars, rounds, rejected, faults>>

\* The pay button: disabled only while paymentStatus is 'checking'.
handlePaymentAndClaim(p) ==
    /\ proc[p].pc \in {"modal", "done"}
    /\ proc[p].paymentStatus # "checking"
    /\ rounds < MaxRounds
    /\ rounds' = rounds + 1
    /\ proc' = [proc EXCEPT ![p] =
          [@ EXCEPT !.paymentStatus = "checking",
                    !.paymentError = "", !.userTx = NoHash, !.feeTx = NoHash,
                    !.primTx = NoHash, !.fbTx = NoHash, !.feeSeen = 0 - 1,
                    !.tokenSel = 0, !.nonce = 0, !.watched = "none",
                    !.served = "none",
                    !.result = NoResult,
                    !.pc = CASE mode = "userPaid" -> "payUser"
                             [] mode = "gasless"  -> "check"
                             [] OTHER             -> "payDirect",
                    !.stage = IF mode = "gasless" THEN "fee" ELSE "none"]]
    /\ UNCHANGED <<callVars, mode, ledgerVars, rejected, faults>>

closeModal(p) ==
    /\ proc[p].pc \in {"modal", "done"}
    /\ proc' = [proc EXCEPT ![p] = IdleProc]
    /\ UNCHANGED <<callVars, mode, ledgerVars, rounds, rejected, faults>>

\* ---------------------------------------------------- gaslessService, routes

ServiceOk(h, msg) == [success |-> TRUE, rewardTxHash |-> h, message |-> msg]
ServiceErr(msg)   == [success |-> FALSE, rewardTxHash |-> NoHash, message |-> msg]

\* POST /api/rewards/gianky, /matic, /nft/<class>: on success the route answers
\* with its own message, `${amount} MATIC sent successfully!`, 'Starter NFT
\* sent successfully!', whatever message the service returned; `said` is the
\* reward category that message names.
rewardRoute(kind, svc) ==
    IF svc.success
    THEN [success |-> TRUE, feeTxHash |-> NoHash,
          rewardTxHash |-> svc.rewardTxHash, said |-> kind]
    ELSE NoResult

\* A reward request answered: the service's result goes through the route to
\* the page; `served` keeps the message of the service's own result, which
\* the route replaces.
rewardReply(pr, kind, svc, error) ==
    [claimResult(pr, rewardRoute(kind, svc), error) EXCEPT !.served = svc.message]

StageOf(kind) ==
    CASE kind = "NFT"     -> "nft"
      [] kind = "Polygon" -> "matic"
      [] OTHER            -> "gianky"

\* processGamePayment without the early return on a failed fee
processGamePayment_noFeeGate(pr, feeResult, error) ==
    [pr EXCEPT !.stage = StageOf(pr.card.kind), !.pc = "check"]

\* gaslessService.processGamePayment after `await this.processGameFee`:
\* `if (!feeResult.success) return feeResult;`, else the reward request of
\* the card's category.
processGamePayment(pr, feeResult, error) ==
    IF ~feeResult.success
    THEN claimResult(pr, feeResult, error)
    ELSE [pr EXCEPT !.stage = StageOf(pr.card.kind), !.pc = "check"]

\* ------------------------------------------------------ AdminWalletService

\* generateTokenId: `typeMap[nftType] || 1`, the number of a class
typeMap(nftType) ==
    CASE nftType = "Starter NFT"  -> 1
      [] nftType = "Basic NFT"    -> 2
      [] nftType = "Standard NFT" -> 3
      [] nftType = "VIP NFT"      -> 4
      [] nftType = "Premium NFT"  -> 5
      [] nftType = "Diamond NFT"  -> 6
      [] OTHER                    -> 1

\* generateTokenId: `baseId * 1000000 + (timestamp % 1000000)`, so the class
\* of an identifier is its millions
ClassOfTokenId(tokenId) == tokenId \div 1000000

\* findAvailableTokenId: the first registry identifier whose owner is the
\* custodian (an ownerOf that throws is skipped), 0 for null.
RECURSIVE FindFrom(_, _)
FindFrom(owner, i) ==
    IF i > Len(knownTokenIds) THEN 0
    ELSE IF owner[knownTokenIds[i]] = Admin THEN knownTokenIds[i]
         ELSE FindFrom(owner, i + 1)

\* the last registry identifier the custodian owns instead of the first
findAvailableTokenId_last(owner) ==
    LET own == {i \in 1..Len(knownTokenIds) : owner[knownTokenIds[i]] = Admin} IN
    IF own = {} THEN 0 ELSE knownTokenIds[CHOOSE i \in own : \A j \in own : j <= i]

findAvailableTokenId(owner) == FindFrom(owner, 1)

\* nftContract.balanceOf(adminAddress)
AdminNFTBalance == Cardinality({t \in TokenIds : nftOwner[t] = Admin})

\* processGameFee without the balance check
feeAffordable_unchecked(adminBalance) == TRUE

\* `if (adminBalance < requiredAmount) throw`, processGameFee
feeAffordable(adminBalance) == adminBalance >= ENTRY_FEE

\* the token transfers without the balance check
giankyAffordable_unchecked(adminGiankyBalance, amount) == TRUE

\* `adminGiankyBalance >= rewardAmountWei`, the three token transfers
giankyAffordable(adminGiankyBalance, amount) == adminGiankyBalance >= amount

\* processMaticReward without the balance check
maticAffordable_unchecked(adminMaticBalance, requiredAmount) == TRUE

\* `adminMaticBalance < (requiredAmount + estimatedGasCost)` negated
maticAffordable(adminMaticBalance, requiredAmount) ==
    adminMaticBalance >= requiredAmount + GasCost

\* the request in hundredths of a MATIC (the card's amount is in MATIC)
MaticAsked(pr) == pr.card.amount * 100

\* The transfer the running service function submits.
TxRequest(p) ==
    LET pr == proc[p] IN
    CASE pr.stage = "fee" ->
            NewTx("token", Admin, Pool, ENTRY_FEE, pr.nonce, "fee")
      [] pr.stage = "gianky" ->
            NewTx("token", Admin, p, pr.card.amount, pr.nonce, "reward")
      [] pr.stage = "matic" ->
            NewTx("native", Admin, p, getSafeMaticAmount(MaticAsked(pr)),
                  pr.nonce, "reward")
      [] pr.stage = "maticFb" ->
            NewTx("token", Admin, p, getMaticToGiankyEquivalent(MaticAsked(pr)),
                  pr.nonce, "fallback")
      [] pr.stage = "nft" ->
            NewTx("nft", Admin, p, pr.tokenSel, pr.nonce, "reward")
      [] pr.stage = "payReward" ->
            NewTx("token", Admin, p, pr.card.amount, pr.nonce, "payment")
      [] pr.stage = "payFee" ->
            NewTx("token", Admin, Pool, ENTRY_FEE, pr.nonce, "paymentFee")
      [] OTHER ->
            NewTx("token", Admin, p, getGiankyEquivalent(pr.card.nft),
                  pr.nonce, "fallback")

\* What each service function does once its transfer was confirmed
\* (outcome "ok"), or once the submission or the wait threw: "sendFail" the
\* broadcast was refused, "revert" the receipt shows failure, "waitError" the
\* wait ended without a receipt.

\* processGameFee, lines after `await feeTx.wait()` and the catch block
processGameFee_end(pr, h, outcome) ==
    IF outcome = "ok"
    THEN processGamePayment(pr, [success |-> TRUE, feeTxHash |-> h,
                                 rewardTxHash |-> NoHash, said |-> "none"], "")
    ELSE processGamePayment(pr, NoResult, outcome)

\* processGiankyReward
processGiankyReward_end(pr, h, outcome) ==
    IF outcome = "ok"
    THEN rewardReply(pr, "Gianky", ServiceOk(h, "Gianky tokens sent"), "")
    ELSE rewardReply(pr, "Gianky", ServiceErr(outcome), outcome)

\* processMaticReward: every throw inside the try goes to the Gianky fallback
processMaticReward_end(pr, h, outcome) ==
    IF outcome = "ok"
    THEN rewardReply(pr, "Polygon", ServiceOk(h, "MATIC sent"), "")
    ELSE [pr EXCEPT !.stage = "maticFb", !.pc = "check"]

\* processMaticToGiankyFallback with a failed transfer tried again
processMaticToGiankyFallback_retry(pr, h, outcome) ==
    IF outcome = "ok"
    THEN rewardReply(pr, "Polygon", ServiceOk(h, "Gianky tokens sent (alternative)"), "")
    ELSE [pr EXCEPT !.pc = "check"]

\* processMaticToGiankyFallback: the catch block answers with a mock success
processMaticToGiankyFallback_end(pr, h, outcome) ==
    IF outcome = "ok"
    THEN rewardReply(pr, "Polygon", ServiceOk(h, "Gianky tokens sent (alternative)"), "")
    ELSE rewardReply(pr, "Polygon", ServiceOk(MockHash, "reward processed (mock)"), "")

\* processNFTReward: a failed transfer (or wait) goes to processHybridReward
processNFTReward_end(pr, h, outcome) ==
    IF outcome = "ok"
    THEN rewardReply(pr, "NFT", ServiceOk(h, "NFT transferred"), "")
    ELSE [pr EXCEPT !.stage = "hybrid", !.pc = "check"]

\* processHybridReward: the catch block answers with a mock success
processHybridReward_end(pr, h, outcome) ==
    IF outcome = "ok"
    THEN rewardReply(pr, "NFT", ServiceOk(h, "Gianky tokens sent (alternative)"), "")
    ELSE rewardReply(pr, "NFT", ServiceOk(MockHash, "reward processed (mock)"), "")

\* AdminWalletService.processGamePayment: the value the call returns
processGamePayment_return(pr, res) ==
    [pr EXCEPT !.pc = "done", !.stage = "none", !.result = res]

\* AdminWalletService.processGamePayment after `await rewardTx.wait()`:
\* 'Step 3: Pay game fee'; a throw goes to the catch block
processGamePayment_rewardEnd(pr, h, outcome) ==
    IF outcome = "ok"
    THEN [pr EXCEPT !.stage = "payFee", !.pc = "populate"]
    ELSE processGamePayment_return(pr, NoResult)

\* AdminWalletService.processGamePayment after `await feeTx.wait()`
processGamePayment_feeEnd(pr, h, outcome) ==
    IF outcome = "ok"
    THEN processGamePayment_return(pr, [success |-> TRUE, feeTxHash |-> h,
                                        rewardTxHash |-> pr.primTx, said |-> "none"])
    ELSE processGamePayment_return(pr, NoResult)

Continue(pr, h, outcome) ==
    CASE pr.stage = "fee"     -> processGameFee_end(pr, h, outcome)
      [] pr.stage = "payReward" -> processGamePayment_rewardEnd(pr, h, outcome)
      [] pr.stage = "payFee"  -> processGamePayment_feeEnd(pr, h, outcome)
      [] pr.stage = "gianky"  -> processGiankyReward_end(pr, h, outcome)
      [] pr.stage = "matic"   -> processMaticReward_end(pr, h, outcome)
      [] pr.stage = "maticFb" -> processMaticToGiankyFallback_end(pr, h, outcome)
      [] pr.stage = "nft"     -> processNFTReward_end(pr, h, outcome)
      [] OTHER                -> processHybridReward_end(pr, h, outcome)

\* The hash of the transfer the running service function waits for.
CurTx(pr) ==
    CASE pr.stage \in {"fee", "payFee"}  -> pr.feeTx
      [] pr.stage \in {"maticFb", "hybrid"} -> pr.fbTx
      [] OTHER                           -> pr.primTx

Step(p, pr) ==
    /\ proc' = [proc EXCEPT ![p] = pr]
    /\ UNCHANGED <<callVars, mode, ledgerVars, rounds, rejected, faults>>

\* A step whose confirmation wait ended without a receipt.
FaultStep(p, pr) ==
    /\ faults < MaxFaults
    /\ faults' = faults + 1
    /\ proc' = [proc EXCEPT ![p] = pr]
    /\ UNCHANGED <<callVars, mode, ledgerVars, rounds, rejected>>

\* processGameFee up to the transfer: the balance check
processGameFee(p) ==
    /\ proc[p].stage = "fee" /\ proc[p].pc = "check"
    /\ LET adminBalance == giankyBal[Admin]
           pr == [proc[p] EXCEPT !.feeSeen = adminBalance] IN
       IF feeAffordable(adminBalance)
       THEN Step(p, [pr EXCEPT !.pc = "populate"])
       ELSE Step(p, processGamePayment(pr, NoResult, "Admin wallet insufficient balance"))

\* processGiankyReward up to the transfer
processGiankyReward(p) ==
    /\ proc[p].stage = "gianky" /\ proc[p].pc = "check"
    /\ IF giankyAffordable(giankyBal[Admin], proc[p].card.amount)
       THEN Step(p, [proc[p] EXCEPT !.pc = "populate"])
       ELSE Step(p, processGiankyReward_end(proc[p], NoHash, "Insufficient Gianky tokens"))

\* processMaticReward up to sendTransaction
processMaticReward(p) ==
    /\ proc[p].stage = "matic" /\ proc[p].pc = "check"
    /\ IF maticAffordable(maticBal, getSafeMaticAmount(MaticAsked(proc[p])))
       THEN Step(p, [proc[p] EXCEPT !.pc = "populate"])
       ELSE Step(p, [proc[p] EXCEPT !.stage = "maticFb", !.pc = "check"])

\* processMaticToGiankyFallback up to the transfer; the else branch is the
\* 'Final fallback: Mock success'
processMaticToGiankyFallback(p) ==
    /\ proc[p].stage = "maticFb" /\ proc[p].pc = "check"
    /\ IF giankyAffordable(giankyBal[Admin], getMaticToGiankyEquivalent(MaticAsked(proc[p])))
       THEN Step(p, [proc[p] EXCEPT !.pc = "populate"])
       ELSE Step(p, rewardReply(proc[p], "Polygon", ServiceOk(MockHash, "reward processed (mock)"), ""))

\* processNFTReward up to transferFrom
processNFTReward(p) ==
    /\ proc[p].stage = "nft" /\ proc[p].pc = "check"
    /\ LET availableTokenId == findAvailableTokenId(nftOwner) IN
       IF AdminNFTBalance > 0 /\ availableTokenId # 0
       THEN Step(p, [proc[p] EXCEPT !.pc = "populate", !.tokenSel = availableTokenId])
       ELSE Step(p, [proc[p] EXCEPT !.stage = "hybrid", !.pc = "check"])

\* processHybridReward up to the transfer; the else branch is the mock success
processHybridReward(p) ==
    /\ proc[p].stage = "hybrid" /\ proc[p].pc = "check"
    /\ IF giankyAffordable(giankyBal[Admin], getGiankyEquivalent(proc[p].card.nft))
       THEN Step(p, [proc[p] EXCEPT !.pc = "populate"])
       ELSE Step(p, rewardReply(proc[p], "NFT", ServiceOk(MockHash, "reward processed (mock)"), ""))

\* ethers Wallet.sendTransaction, first half: populateTransaction reads the
\* account's pending transaction count as the nonce.
WalletPopulate(p) ==
    /\ proc[p].pc = "populate"
    /\ Step(p, [proc[p] EXCEPT !.pc = "broadcast", !.nonce = AdminNext])

\* ethers Wallet.sendTransaction, second half: the signed transaction is
\* broadcast.  The node refuses a nonce that is already taken and a value
\* transfer the balance does not cover; the call then throws.
WalletBroadcast(p) ==
    /\ proc[p].pc = "broadcast"
    /\ LET pr == proc[p]
           tx == TxRequest(p)
           h  == Len(ledgerTxs) + 1 IN
       IF pr.nonce = AdminNext /\ (tx.kind = "native" => maticBal >= tx.amt + GasCost)
       THEN /\ ledgerTxs' = Append(ledgerTxs, tx)
            /\ proc' = [proc EXCEPT ![p] =
                  CASE pr.stage \in {"fee", "payFee"} ->
                          [pr EXCEPT !.pc = "wait", !.nonce = 0, !.feeTx = h]
                    [] pr.stage \in {"maticFb", "hybrid"} ->
                          [pr EXCEPT !.pc = "wait", !.nonce = 0, !.fbTx = h]
                    [] OTHER -> [pr EXCEPT !.pc = "wait", !.nonce = 0, !.primTx = h]]
            /\ UNCHANGED <<callVars, mode, giankyBal, maticBal, nftOwner, rounds, rejected, faults>>
       ELSE /\ proc' = [proc EXCEPT ![p] =
                             Continue([pr EXCEPT !.nonce = 0], NoHash, "sendFail")]
            /\ rejected' = (rejected \/ pr.nonce # AdminNext)
            /\ UNCHANGED <<callVars, mode, ledgerVars, rounds, faults>>

\* `await tx.wait()` in the service: returns on a receipt of a successful
\* execution, throws on a receipt of a reverted one, and throws without a
\* receipt when the provider fails while the transaction is still pending.
\* There is no timeout argument.
TxWait(p) ==
    /\ proc[p].pc = "wait"
    /\ LET pr == proc[p]
           h  == CurTx(pr)
           st == StatusOf(h) IN
       \/ st = "success"  /\ Step(p, Continue(pr, h, "ok"))
       \/ st = "reverted" /\ Step(p, Continue(pr, h, "revert"))
       \/ st = "pending"  /\ FaultStep(p, Continue(pr, h, "waitError"))

\* ------------------------------------------- card page, player-pays handler

\* contractService.payGameFeeFromUser: balance check, then the player's own
\* transfer of the fee to the custodian; `rejects` is the wallet prompt
\* being declined (writeContract throws).
payGameFeeFromUser(p, rejects) ==
    /\ proc[p].pc = "payUser"
    /\ IF giankyBal[p] < ENTRY_FEE \/ rejects
       THEN Step(p, claimResult(proc[p], NoResult, "Payment failed"))
       ELSE /\ ledgerTxs' = Append(ledgerTxs,
                                   NewTx("token", p, Admin, ENTRY_FEE, 0, "userfee"))
            /\ proc' = [proc EXCEPT ![p] =
                          [@ EXCEPT !.pc = "userWait", !.userTx = Len(ledgerTxs) + 1]]
            /\ UNCHANGED <<callVars, mode, giankyBal, maticBal, nftOwner, rounds, rejected, faults>>

\* handleUserPaidPayAndClaim, step 2: the confirmation watcher's verdict on
\* the player's transfer; with the transfer still pending the wait has
\* timed out.  On true, step 4 calls gaslessService.processGamePayment.
handleUserPaidPayAndClaim_confirm(p) ==
    /\ proc[p].pc = "userWait"
    /\ LET st == StatusOf(proc[p].userTx)
           paymentConfirmed == waitForTransaction(st) IN
       LET pr == IF paymentConfirmed
                 THEN [proc[p] EXCEPT !.stage = "fee", !.pc = "check", !.watched = st]
                 ELSE claimResult([proc[p] EXCEPT !.watched = st], NoResult,
                                  "Payment confirmed but transaction failed")
       IN IF st = "pending" THEN FaultStep(p, pr) ELSE Step(p, pr)

\* ------------------------------------------------ card page, handleGamePayment

\* handleGamePayment up to waitForTransaction: contractService.payGameFee
\* sends the fee from the player to the pool without a balance check, and
\* the page is set to 'paid' as soon as the hash is returned.
handleGamePayment(p, rejects) ==
    /\ proc[p].pc = "payDirect"
    /\ IF rejects
       THEN Step(p, claimResult(proc[p], NoResult, "Payment failed"))
       ELSE /\ ledgerTxs' = Append(ledgerTxs,
                                   NewTx("token", p, Pool, ENTRY_FEE, 0, "userfee"))
            /\ proc' = [proc EXCEPT ![p] =
                          [@ EXCEPT !.pc = "directWait", !.paymentStatus = "paid",
                                    !.userTx = Len(ledgerTxs) + 1]]
            /\ gameEligibility' = [gameEligibility EXCEPT ![p] =
                          IF @ = NoEligibility THEN @ ELSE [@ EXCEPT !.can_play = TRUE]]
            /\ UNCHANGED <<dust, userPaidFee, mode, giankyBal, maticBal, nftOwner,
                           rounds, rejected, faults>>

\* handleGamePayment, `const confirmed = await waitForTransaction(...)`
handleGamePayment_confirm(p) ==
    /\ proc[p].pc = "directWait"
    /\ LET st == StatusOf(proc[p].userTx)
           confirmed == waitForTransaction(st) IN
       LET pr == [proc[p] EXCEPT !.pc = "done", !.watched = st,
                                 !.paymentError = IF confirmed THEN ""
                                     ELSE "Payment confirmed but transaction failed"]
       IN IF st = "pending" THEN FaultStep(p, pr) ELSE Step(p, pr)

\* ------------------------------------------------- eligibility, fee receipt

\* contractService.getTokenBalance: formatEther of balanceOf; a failed read is
\* caught and answered with '0'.
getTokenBalance(a, readFails) ==
    IF readFails THEN Amount(0, 0) ELSE formatEther(Amount(giankyBal[a], dust[a]))

\* contractService.getNFTCount: Number(balanceOf), 0 when the read fails
getNFTCount(a, readFails) ==
    IF readFails THEN 0 ELSE Cardinality({t \in TokenIds : nftOwner[t] = a})

\* contractService.checkGameEligibility: the ContractBalance it returns
contractService_checkGameEligibility(tokenBalance, nftCount) ==
    LET balanceNumber == parseFloat(tokenBalance)
        requiredFee   == ENTRY_FEE IN
    [tokenBalance |-> tokenBalance, nftCount |-> nftCount,
     isEligible   |-> AtLeast(balanceNumber, requiredFee),
     shortfall    |-> Shortfall(requiredFee, balanceNumber)]

\* the page's conversion with `success: true` replaced by the eligibility
toGameEligibility_errorWhenShort(contractBalance) ==
    [success |-> contractBalance.isEligible, can_play |-> contractBalance.isEligible,
     current_balance |-> parseFloat(contractBalance.tokenBalance),
     required_fee |-> ENTRY_FEE, shortfall |-> contractBalance.shortfall,
     nftCount |-> contractBalance.nftCount]

\* the page's checkGameEligibility, 'Convert to API format for compatibility'
toGameEligibility(contractBalance) ==
    [success |-> TRUE, can_play |-> contractBalance.isEligible,
     current_balance |-> parseFloat(contractBalance.tokenBalance),
     required_fee |-> ENTRY_FEE, shortfall |-> contractBalance.shortfall,
     nftCount |-> contractBalance.nftCount]

\* The page's checkGameEligibility (run when the wallet connects): two reads
\* of the ledger, then setGameEligibility.  Only the first read decides the
\* eligibility, so the two reads are one step.
checkGameEligibility(p, readFails) ==
    /\ readFails => faults < MaxFaults
    /\ faults' = IF readFails THEN faults + 1 ELSE faults
    /\ gameEligibility' = [gameEligibility EXCEPT ![p] =
          toGameEligibility(contractService_checkGameEligibility(
              getTokenBalance(p, readFails), getNFTCount(p, readFails)))]
    /\ UNCHANGED <<dust, userPaidFee, mode, ledgerVars, proc, rounds, rejected>>

\* gaslessService.processUserPaidGameFee: POST /api/game/process-user-paid-fee
\* answers every request that names a user address with success and the
\* literal 'user-paid'; the request carries no transaction reference.
processUserPaidGameFee(p) ==
    /\ userPaidFee' = [userPaidFee EXCEPT ![p] =
          [success |-> TRUE, feeTxHash |-> UserPaidHash,
           rewardTxHash |-> NoHash, said |-> "none"]]
    /\ UNCHANGED <<dust, gameEligibility, mode, ledgerVars, proc, rounds,
                   rejected, faults>>

Next ==
    \/ \E p \in Players, c \in Cards : handleCardClick(p, c)
    \/ \E p \in Players : handlePaymentAndClaim(p)
    \/ \E p \in Players : closeModal(p)
    \/ \E p \in Players, rejects \in BOOLEAN : payGameFeeFromUser(p, rejects)
    \/ \E p \in Players : handleUserPaidPayAndClaim_confirm(p)
    \/ \E p \in Players, rejects \in BOOLEAN : handleGamePayment(p, rejects)
    \/ \E p \in Players : handleGamePayment_confirm(p)
    \/ \E p \in Players : processGameFee(p)
    \/ \E p \in Players : processGiankyReward(p)
    \/ \E p \in Players : processMaticReward(p)
    \/ \E p \in Players : processMaticToGiankyFallback(p)
    \/ \E p \in Players : processNFTReward(p)
    \/ \E p \in Players : processHybridReward(p)
    \/ \E p \in Players : WalletPopulate(p)
    \/ \E p \in Players : WalletBroadcast(p)
    \/ \E p \in Players : TxWait(p)
    \/ \E h \in Hashes : Mine(h)

Spec == Init /\ [][Next]_vars

\* The page with the pay button wired to handleGamePayment, together with
\* the eligibility check and the player-pays fee receipt: player p1 starts
\* with a balance at, just under or above the fee.
PlayerBalances ==
    { Amount(10, 0), Amount(5, 0), Amount(5, 0 - 1), Amount(5, 0 - 445),
      Amount(4, 0) }

InitCalls ==
    /\ mode = "direct"
    /\ \E b \in PlayerBalances :
          /\ giankyBal = [a \in Accounts |->
                            CASE a = Admin -> 60
                              [] a = Pool  -> 0
                              [] a = "p1"  -> b.tokens
                              [] OTHER     -> 7]
          /\ dust = [a \in Accounts |-> IF a = "p1" THEN b.wei ELSE 0]
    /\ maticBal = 200
    /\ nftOwner = [t \in TokenIds |-> IF t = knownTokenIds[1] THEN Admin ELSE "other"]
    /\ ledgerTxs = <<>>
    /\ proc = [p \in Players |-> IdleProc]
    /\ rounds = 0
    /\ rejected = FALSE
    /\ faults = 0
    /\ gameEligibility = [p \in Players |-> NoEligibility]
    /\ userPaidFee = [p \in Players |-> NoResult]

NextCalls ==
    \/ \E p \in Players, readFails \in BOOLEAN : checkGameEligibility(p, readFails)
    \/ \E p \in Players : processUserPaidGameFee(p)
    \/ \E p \in Players, c \in Cards : handleCardClick(p, c)
    \/ \E p \in Players : handlePaymentAndClaim(p)
    \/ \E p \in Players : closeModal(p)
    \/ \E p \in Players, rejects \in BOOLEAN : handleGamePayment(p, rejects)
    \/ \E p \in Players : handleGamePayment_confirm(p)
    \/ \E h \in Hashes : Mine(h)

SpecCalls == InitCalls /\ [][NextCalls]_vars

\* The backend called by any client: the reward routes, which take a user
\* address (and an amount) from the request body, and
\* AdminWalletService.processGamePayment.  Each player address makes one
\* request; the answer is kept in the request's record.

\* POST /api/rewards/gianky, /matic, /nft/starter: a request that lacks the
\* address or the amount is answered 400, any other is handed to the
\* service function of the reward's category.
postReward(p, c, missing) ==
    /\ proc[p].pc = "idle"
    /\ LET pr == [proc[p] EXCEPT !.card = c] IN
       IF missing
       THEN Step(p, rewardReply(pr, c.kind, ServiceErr("Missing user address"),
                                "Missing user address"))
       ELSE Step(p, [pr EXCEPT !.stage = StageOf(c.kind), !.pc = "check"])

\* AdminWalletService.processGamePayment is called
AdminWalletService_processGamePayment(p, c) ==
    /\ proc[p].pc = "idle"
    /\ Step(p, [proc[p] EXCEPT !.card = c, !.stage = "payment", !.pc = "check"])

\* AdminWalletService.processGamePayment, Step 1 and the branch of Step 2:
\* 'NFT' makes a mock rewardTx whose wait() resolves at once, so the fee
\* transfer comes next; 'Gianky' reads the balance again; 'Polygon'
\* multiplies the number gasLimit by a bigint fee (or adds the number 0 to a
\* bigint amount), which throws a TypeError into the catch block.
processGamePayment_step1(p) ==
    /\ proc[p].stage = "payment" /\ proc[p].pc = "check"
    /\ LET pr == proc[p]
           adminBalance == giankyBal[Admin] IN
       IF adminBalance < ENTRY_FEE
       THEN Step(p, processGamePayment_return(pr, NoResult))
       ELSE CASE pr.card.kind = "NFT" ->
                    Step(p, [pr EXCEPT !.primTx = MockHash, !.stage = "payFee",
                                       !.pc = "populate"])
              [] pr.card.kind = "Gianky" ->
                    Step(p, [pr EXCEPT !.stage = "payReward", !.pc = "check"])
              [] OTHER ->
                    Step(p, processGamePayment_return(pr, NoResult))

\* AdminWalletService.processGamePayment, the 'Gianky' branch up to the transfer
processGamePayment_gianky(p) ==
    /\ proc[p].stage = "payReward" /\ proc[p].pc = "check"
    /\ LET adminGiankyBalance == giankyBal[Admin] IN
       IF adminGiankyBalance < proc[p].card.amount
       THEN Step(p, processGamePayment_return(proc[p], NoResult))
       ELSE Step(p, [proc[p] EXCEPT !.pc = "populate"])

InitBackend ==
    /\ Init
    /\ mode = "gasless"

NextBackend ==
    \/ \E p \in Players, c \in Cards, missing \in BOOLEAN : postReward(p, c, missing)
    \/ \E p \in Players, c \in Cards : AdminWalletService_processGamePayment(p, c)
    \/ \E p \in Players : processGamePayment_step1(p)
    \/ \E p \in Players : processGamePayment_gianky(p)
    \/ \E p \in Players : processGiankyReward(p)
    \/ \E p \in Players : processMaticReward(p)
    \/ \E p \in Players : processMaticToGiankyFallback(p)
    \/ \E p \in Players : processNFTReward(p)
    \/ \E p \in Players : processHybridReward(p)
    \/ \E p \in Players : WalletPopulate(p)
    \/ \E p \in Players : WalletBroadcast(p)
    \/ \E p \in Players : TxWait(p)
    \/ \E h \in Hashes : Mine(h)

SpecBackend == InitBackend /\ [][NextBackend]_vars

\* The page with the pay button wired to the gasless handler, with the
\* scheduling of the event loop: a service function that can take its next
\* step takes it.  Nothing is assumed about the ledger, nor about the player.
InitLive ==
    /\ Init
    /\ mode = "gasless"

\* the steps of the service functions running for player p
ServiceStep(p) ==
    \/ processGameFee(p)
    \/ processGiankyReward(p)
    \/ processMaticReward(p)
    \/ processMaticToGiankyFallback(p)
    \/ processNFTReward(p)
    \/ processHybridReward(p)
    \/ WalletPopulate(p)
    \/ WalletBroadcast(p)
    \/ TxWait(p)

NextLive ==
    \/ \E p \in Players, c \in Cards : handleCardClick(p, c)
    \/ \E p \in Players : handlePaymentAndClaim(p)
    \/ \E p \in Players : closeModal(p)
    \/ \E p \in Players : ServiceStep(p)
    \/ \E h \in Hashes : Mine(h)

SpecLive ==
    InitLive /\ [][NextLive]_vars /\ \A p \in Players : WF_vars(ServiceStep(p))

\* ------------------------------------------------------------------ claims

RewardStages == {"gianky", "matic", "maticFb", "nft", "hybrid"}

\* a reward transfer of the running settlement was submitted or is being submitted
RewardSubmitted(pr) ==
    pr.primTx # NoHash \/ pr.fbTx # NoHash \/ pr.stage \in RewardStages

\* the fee leg of the running settlement is confirmed: the custodial fee
\* transfer, and in player-pays mode the player's own transfer before it
FeeLegSucceeded(pr) ==
    /\ StatusOf(pr.feeTx) = "success"
    /\ mode = "userPaid" => StatusOf(pr.userTx) = "success"

\* the handler of the settlement has returned
Completed(pr) == pr.pc \in {"modal", "done"} /\ pr.paymentStatus \in {"paid", "failed"}

SettlementTxs(pr) == {pr.userTx, pr.feeTx, pr.primTx, pr.fbTx} \ {NoHash}

C2_SuccessHasConfirmedReference ==
    \A p \in Players :
        proc[p].result.success /\ proc[p].paymentStatus = "paid"
            => StatusOf(proc[p].result.rewardTxHash) = "success"

\* C3: submissions of the custodial signer are serialized: no two are in
\* progress together (between the nonce read and the broadcast), and no
\* broadcast is refused for a nonce that is already taken.
C3_SubmissionsSerialized ==
    /\ ~rejected
    /\ Cardinality({p \in Players : proc[p].pc = "broadcast"}) <= 1

\* C4: no completed settlement whose transfers are all final has charged the
\* player's fee without a delivered reward, or delivered a reward while the
\* fee transfer failed.
C4_ChargeAndRewardAgree ==
    \A p \in Players :
        LET pr == proc[p]
            delivered == StatusOf(pr.primTx) = "success" \/ StatusOf(pr.fbTx) = "success"
        IN (Completed(pr) /\ \A h \in SettlementTxs(pr) : StatusOf(h) # "pending")
              => /\ StatusOf(pr.userTx) = "success" => delivered
                 /\ delivered => StatusOf(pr.feeTx) = "success"

\* C5: when fee settlement reads a custodial balance below the fee, the call
\* fails with the insufficient-custodial-funds error, it submits no
\* transfer, and in custodian-pays mode no transfer of the player exists.
C5_InsufficientCustodialFunds ==
    \A p \in Players :
        LET pr == proc[p] IN
        (pr.feeSeen >= 0 /\ pr.feeSeen < ENTRY_FEE)
            => /\ pr.paymentStatus = "failed"
               /\ pr.paymentError = "Admin wallet insufficient balance"
               /\ pr.pc = "modal"
               /\ pr.feeTx = NoHash /\ pr.primTx = NoHash /\ pr.fbTx = NoHash
               /\ mode = "gasless" =>
                     /\ pr.userTx = NoHash
                     /\ \A h \in Hashes : ledgerTxs[h].from # p

C5_Witness ==
    \E p \in Players :
        /\ mode = "gasless"
        /\ proc[p].feeSeen = 3
        /\ proc[p].paymentError = "Admin wallet insufficient balance"

\* C6: when a Native or NonFungible reward has fallen back and neither the
\* primary nor the fallback transfer was delivered, the outcome is not
\* Success.
C6_UnavailableNotSuccess ==
    \A p \in Players :
        LET pr == proc[p] IN
        ( /\ Completed(pr)
          /\ pr.card.kind \in {"NFT", "Polygon"}
          /\ StatusOf(pr.feeTx) = "success"
          /\ StatusOf(pr.primTx) \in {"none", "reverted"}
          /\ StatusOf(pr.fbTx) \in {"none", "reverted"} )
            => ~pr.result.success

\* C7: when the fungible fallback was delivered in place of the requested
\* reward, the outcome names the delivered (fungible) reward, not the
\* requested one.
C7_SubstitutionSurfaced ==
    \A p \in Players :
        (proc[p].result.success /\ StatusOf(proc[p].fbTx) = "success")
            => proc[p].result.said = "Gianky"

\* C8: a replacement (fallback) transfer is issued only for a primary
\* transfer that is known to have reverted, never for one whose wait ended
\* without a receipt, so one dispatch never delivers two rewards.
C8_NoReissueWithoutRecheck ==
    \A p \in Players :
        /\ (proc[p].primTx # NoHash /\ proc[p].fbTx # NoHash)
               => StatusOf(proc[p].primTx) = "reverted"
        /\ ~(StatusOf(proc[p].primTx) = "success" /\ StatusOf(proc[p].fbTx) = "success")

\* C9: the watcher's verdict tells Success, Reverted and TimedOut apart: the
\* verdict returned for the observed ledger status differs from the verdict
\* of every other status.
C9_VerdictsDistinct ==
    \A p \in Players :
        proc[p].watched # "none" =>
            /\ waitForTransaction(proc[p].watched) = TRUE => proc[p].watched = "success"
            /\ \A s \in {"success", "reverted", "pending"} \ {proc[p].watched} :
                   waitForTransaction(s) # waitForTransaction(proc[p].watched)

\* C10: the page reports a settlement as paid only when no submitted
\* transfer of either leg is still unconfirmed.
C10_CompleteOnlyWhenTerminal ==
    \A p \in Players :
        proc[p].paymentStatus = "paid"
            => \A h \in SettlementTxs(proc[p]) : StatusOf(h) # "pending"

\* a step of the page's checkGameEligibility that stored a new result for p
EligibilityChecked(p) ==
    /\ gameEligibility'[p] # gameEligibility[p]
    /\ proc' = proc

\* the player's balance as the token contract holds it, and whether it covers
\* the fee
ExactBalance(p) == Amount(giankyBal[p], dust[p])

\* C11: in player-pays mode the fee is reported as paid only for a reference
\* that names a transfer of the player's own which the ledger has confirmed;
\* it is never reported as paid without such a reference.
C11_FeePaidOnlyForValidatedReference ==
    \A p \in Players :
        userPaidFee[p].success =>
            /\ userPaidFee[p].feeTxHash \in Hashes
            /\ ledgerTxs[userPaidFee[p].feeTxHash].from = p
            /\ ledgerTxs[userPaidFee[p].feeTxHash].status = "success"

\* C13: every eligibility check whose reads succeed stores eligible = true
\* exactly when the player's balance is at least the fee, and shortfall =
\* max(0, fee - balance).
C13_EligibleIffBalanceCoversFee ==
    [][\A p \in Players :
          (EligibilityChecked(p) /\ faults' = faults) =>
              /\ gameEligibility'[p].can_play = AtLeast(ExactBalance(p), ENTRY_FEE)
              /\ gameEligibility'[p].shortfall = Shortfall(ENTRY_FEE, ExactBalance(p))]_vars

\* C14: a check repeated while the player's balance is still the one the
\* stored result was computed from stores the same result again.
C14_RepeatedCheckSameResult ==
    [][\A p \in Players :
          ( /\ proc' = proc /\ UNCHANGED <<ledgerVars, userPaidFee>>
            /\ gameEligibility[p].success
            /\ gameEligibility[p].current_balance = parseFloat(formatEther(ExactBalance(p)))
            /\ gameEligibility[p].can_play = AtLeast(gameEligibility[p].current_balance, ENTRY_FEE) )
              => gameEligibility'[p] = gameEligibility[p]]_vars

\* C15: an eligibility check changes no balance, no ownership and submits
\* no transfer, and it stores a normal result (success) whether the player
\* is eligible or not.
C15_CheckIsReadOnly ==
    [][\A p \in Players :
          EligibilityChecked(p) =>
              /\ UNCHANGED ledgerVars
              /\ gameEligibility'[p].success
              /\ gameEligibility'[p].required_fee = ENTRY_FEE]_vars

C15_Witness ==
    \E p \in Players :
        /\ gameEligibility[p].success
        /\ ~gameEligibility[p].can_play
        /\ gameEligibility[p].current_balance = Amount(4, 0)
        /\ gameEligibility[p].shortfall = Amount(1, 0)
        /\ ledgerTxs = <<>>

\* C12: when processGiankyReward reads a custodial balance below the amount
\* asked, it fails with the insufficient-tokens error and submits no
\* transfer.
C12_FungibleUnavailableNoTransfer ==
    [][\A p \in Players :
          ( /\ proc[p].stage = "gianky" /\ proc[p].pc = "check"
            /\ proc'[p] # proc[p]
            /\ giankyBal[Admin] < proc[p].card.amount )
              => /\ ledgerTxs' = ledgerTxs
                 /\ ~proc'[p].result.success
                 /\ proc'[p].paymentStatus = "failed"
                 /\ proc'[p].paymentError = "Insufficient Gianky tokens"
                 /\ proc'[p].primTx = NoHash /\ proc'[p].fbTx = NoHash
                 /\ proc'[p].pc = "modal"]_vars

C12_Witness ==
    \E p \in Players :
        /\ proc[p].card.kind = "Gianky"
        /\ giankyBal[Admin] < proc[p].card.amount
        /\ StatusOf(proc[p].feeTx) = "success"
        /\ proc[p].paymentError = "Insufficient Gianky tokens"
        /\ proc[p].primTx = NoHash

\* the largest step of the ladder that does not exceed `limit`, 0 when none
LargestStep(limit) ==
    LET fit == {safeAmounts[i] : i \in 1..Len(safeAmounts)} \cap 0..limit IN
    IF fit = {} THEN 0 ELSE CHOOSE a \in fit : \A b \in fit : b <= a

\* a step of processMaticReward's balance check for p
MaticChecked(p) ==
    /\ proc[p].stage = "matic" /\ proc[p].pc = "check"
    /\ proc'[p] # proc[p]

\* C16: the native strategy sends the largest ladder step that exceeds
\* neither the request nor the custodial native balance less the gas
\* reserve, whenever such a step exists.
C16_ClampedToBalance ==
    [][\A p \in Players :
          LET clamped == LargestStep(IF MaticAsked(proc[p]) < maticBal - GasCost
                                     THEN MaticAsked(proc[p]) ELSE maticBal - GasCost)
          IN (MaticChecked(p) /\ clamped > 0)
                => /\ proc'[p].stage = "matic" /\ proc'[p].pc = "populate"
                   /\ TxRequest(p).amt = clamped]_vars

\* C17: the fungible amount sent when a native reward falls back is
\* max(floor(requested * 2), 5) of the requested amount, 20 for a request
\* of 10, not the equivalent of the clamped amount.
C17_FallbackFromRequestedAmount ==
    \A p \in Players :
        (proc[p].card.kind = "Polygon" /\ proc[p].fbTx # NoHash)
            => /\ ledgerTxs[proc[p].fbTx].kind = "token"
               /\ ledgerTxs[proc[p].fbTx].to = p
               /\ ledgerTxs[proc[p].fbTx].amt = Max(2 * proc[p].card.amount, 5)

C17_Witness ==
    \E p \in Players :
        /\ proc[p].card = [kind |-> "Polygon", amount |-> 10, nft |-> ""]
        /\ proc[p].fbTx # NoHash
        /\ ledgerTxs[proc[p].fbTx].amt = 20
        /\ StatusOf(proc[p].fbTx) = "success"

\* C19: processMaticReward goes on to submit the native transfer only when
\* the clamped amount is positive and the custodial native balance covers
\* it plus the gas cost; otherwise the step submits nothing and the request
\* goes to the fungible fallback.
C19_NativeOnlyWhenCovered ==
    [][\A p \in Players :
          MaticChecked(p) =>
              LET safeAmount == getSafeMaticAmount(MaticAsked(proc[p])) IN
              IF safeAmount > 0 /\ maticBal >= safeAmount + GasCost
              THEN proc'[p].stage = "matic" /\ proc'[p].pc = "populate"
              ELSE /\ proc'[p].stage = "maticFb" /\ proc'[p].pc = "check"
                   /\ proc'[p].primTx = NoHash
                   /\ ledgerTxs' = ledgerTxs]_vars

C19_Witness ==
    \E p \in Players :
        /\ proc[p].card.kind = "Polygon"
        /\ proc[p].stage = "maticFb"
        /\ proc[p].primTx = NoHash
        /\ maticBal < getSafeMaticAmount(MaticAsked(proc[p])) + GasCost
        /\ \A h \in Hashes : ledgerTxs[h].kind # "native"

\* C18: the fallback of a non-fungible reward sends exactly the table value
\* of the class (10 for Starter); with no registry identifier owned and a
\* custodial balance of at least that value the fallback goes on to the
\* transfer, and once it is confirmed the service reports the Gianky
\* tokens sent in place of the item, with success.
C18_NonFungibleFallbackAmount ==
    [][\A p \in Players :
          LET pr == proc[p]
              nx == proc'[p]
              table == IF nx.card.nft = "Starter NFT" THEN 10 ELSE 20 IN
          /\ (nx.card.kind = "NFT" /\ nx.fbTx # NoHash)
                => /\ ledgerTxs'[nx.fbTx].kind = "token"
                   /\ ledgerTxs'[nx.fbTx].to = p
                   /\ ledgerTxs'[nx.fbTx].amt = table
          /\ (pr.stage = "hybrid" /\ pr.pc = "check" /\ nx # pr
                 /\ giankyBal[Admin] >= table)
                => nx.stage = "hybrid" /\ nx.pc = "populate"
          /\ (pr.stage = "hybrid" /\ pr.pc = "wait" /\ nx # pr
                 /\ StatusOf(pr.fbTx) = "success")
                => /\ nx.result.success
                   /\ nx.result.rewardTxHash = pr.fbTx
                   /\ nx.served = "Gianky tokens sent (alternative)"]_vars

C18_Witness ==
    \E p \in Players :
        /\ proc[p].card.nft = "Starter NFT"
        /\ proc[p].tokenSel = 0 /\ proc[p].primTx = NoHash
        /\ findAvailableTokenId(nftOwner) = 0
        /\ StatusOf(proc[p].fbTx) = "success"
        /\ ledgerTxs[proc[p].fbTx].amt = 10
        /\ proc[p].result.success
        /\ proc[p].served = "Gianky tokens sent (alternative)"

\* C20: the identifier chosen for a non-fungible reward is in the registry,
\* is owned by the custodian when it is looked up, and is of the class that
\* was requested.
C20_ItemOfRequestedClass ==
    [][\A p \in Players :
          (proc[p].tokenSel = 0 /\ proc'[p].tokenSel # 0)
              => /\ proc'[p].tokenSel \in TokenIds
                 /\ nftOwner[proc'[p].tokenSel] = Admin
                 /\ ClassOfTokenId(proc'[p].tokenSel) = typeMap(proc[p].card.nft)]_vars

\* a step of processNFTReward's lookup for p
InventoryLooked(p) ==
    /\ proc[p].stage = "nft" /\ proc[p].pc = "check"
    /\ proc'[p] # proc[p]

C22_NoSharedIdentifier ==
    \A p, q \in Players :
        (p # q /\ proc[p].stage = "nft" /\ proc[q].stage = "nft"
              /\ proc[p].tokenSel # 0)
            => proc[p].tokenSel # proc[q].tokenSel

\* C24: within one dispatch the primary transfer and the fallback transfer
\* are each submitted at most once: a submitted reference is never replaced
\* by another, a strategy whose submission or wait has ended is not entered
\* again, and the fallback ends the dispatch with an outcome.
C24_OneAttemptEach ==
    [][\A p \in Players :
          LET pr == proc[p]
              nx == proc'[p] IN
          /\ pr.primTx # NoHash => nx.primTx \in {pr.primTx, NoHash}
          /\ pr.fbTx # NoHash => nx.fbTx \in {pr.fbTx, NoHash}
          /\ (pr.stage \in RewardStages /\ pr.pc \in {"broadcast", "wait"} /\ nx # pr)
                => ~(nx.stage = pr.stage /\ nx.pc \in {"check", "populate", "broadcast"})
          /\ (pr.stage \in {"maticFb", "hybrid"} /\ nx.stage # pr.stage)
                => (nx.stage = "none" /\ Completed(nx))
          /\ (pr.stage \in {"matic", "nft"} /\ nx.stage # pr.stage)
                => \/ nx.stage = "none" /\ Completed(nx)
                   \/ pr.stage = "matic" /\ nx.stage = "maticFb"
                   \/ pr.stage = "nft" /\ nx.stage = "hybrid"]_vars

C24_Witness ==
    \E p \in Players :
        /\ proc[p].card.kind = "NFT"
        /\ StatusOf(proc[p].primTx) = "reverted"
        /\ StatusOf(proc[p].fbTx) = "success"
        /\ Completed(proc[p])

\* C25: in the player-pays flow the card is flipped before the reward
\* transfer is made: whenever a reward is being dispatched or has been
\* dispatched, the card is already revealed.
C25_RevealBeforeTransfer ==
    \A p \in Players :
        (mode = "userPaid" /\ RewardSubmitted(proc[p])) => proc[p].flipped

\* C27: a custodial token transfer that passed its balance check never
\* reverts for a balance that no longer covers it.
C27_CheckedTransferNeverShort ==
    \A h \in Hashes :
        (ledgerTxs[h].from = Admin /\ ledgerTxs[h].kind = "token")
            => ledgerTxs[h].status # "reverted"

\* C29: a player-pays round makes one fee transfer, the player's; no
\* custodial fee transfer to the pool is made in the same round.
C29_OneFeeTransferPerRound ==
    \A p \in Players :
        (mode = "userPaid" /\ proc[p].userTx # NoHash) => proc[p].feeTx = NoHash

\* C30: with the pay button wired to the player-pays handler, no settlement
\* is started for a card while one is running for it, nor after one has
\* succeeded for it and the modal is still open.
C30_NoSecondSettlement ==
    [][\A p \in Players :
          (mode = "userPaid" /\ proc[p].paymentStatus \in {"checking", "paid"}
               /\ proc'[p].card = proc[p].card)
            => ~(proc'[p].pc = "payUser" /\ proc[p].pc # "payUser")]_vars

\* C26: a call of AdminWalletService.processGamePayment submits its fee
\* transfer only when the reward transfer of that call was submitted and
\* confirmed; with a failed reward or no reward sent no fee is submitted.
C26_FeeOnlyAfterRewardConfirmed ==
    \A p \in Players :
        (proc[p].feeTx \in Hashes /\ ledgerTxs[proc[p].feeTx].leg = "paymentFee")
            => StatusOf(proc[p].primTx) = "success"

\* C28: every reward or fallback transfer the reward routes send from the
\* custodial account goes to a player whose fee settlement has succeeded.
C28_RewardOnlyAfterFeeSettlement ==
    \A h \in Hashes :
        (ledgerTxs[h].from = Admin /\ ledgerTxs[h].leg \in {"reward", "fallback"})
            => \E p \in Players : ledgerTxs[h].to = p /\ FeeLegSucceeded(proc[p])

\* C23: every confirmation wait of a fee leg or a reward leg ends.
C23_EveryWaitEnds ==
    \A p \in Players : (proc[p].pc = "wait") ~> (proc[p].pc # "wait")

====
